---- MODULE Spec2Model ----
(***************************************************************************)
(* The configuration-to-invocation pipeline of ocrmypdf_web.py:            *)
(* widget values -> validate_config -> the process-button gate ->          *)
(* argument synthesis -> process_single_file (temporary files, child       *)
(* process, result classification, cleanup) -> the batch loop.             *)
(*                                                                         *)
(* Representation.  Python strings are TLA+ strings; the user-visible      *)
(* Chinese texts are written as ASCII tags, the source line is named in    *)
(* the comment beside each.  None is the empty tuple and a present value   *)
(* x is <<x>>, so that "x is None" and "if x:" can both be computed.       *)
(* Bytes are sequences of small integers.  A child's stderr is a sequence  *)
(* of lines; each line is one of a fixed set of fragments, and "s in       *)
(* stderr" is computed line by line from the table FragmentHas.            *)
(***************************************************************************)
EXTENDS Integers, Sequences, FiniteSets, TLC

VARIABLES
    cpu_count,        \* os.cpu_count() of the host
    opts,             \* the widget values of this script run
    batch_mode,       \* the batch checkbox (line 337)
    uploaded_files,   \* the uploaded files, in upload order
    pc,               \* position of the script run
    config_errors,    \* validate_config(current_config) (line 324)
    args,             \* the synthesized argument list (lines 536-584)
    i,                \* index of the batch loop (line 597), zero-based
    results,          \* batch: (file, output_data) pairs (line 594)
    errors,           \* batch: (file.name, error) pairs (line 595)
    overall_progress, \* last value given to overall_progress.progress
    shown,            \* single mode: what the page shows for the result
    rpc,              \* position inside process_single_file
    cur_file,         \* the file argument of the running call
    input_file,       \* local input_file.name, None while unbound
    output_file,      \* local output_file.name, None while unbound
    fs,               \* temporary files that exist: name -> bytes
    child,            \* the child process of the running call
    ret,              \* the pair the running call returns
    caught,           \* str(e) of the exception caught at line 500, or None
    warnings,         \* file names of logged cleanup failures (line 512)
    calls,            \* number of process_single_file calls so far
    launches,         \* history: every Popen (file index, argv)
    returned,         \* history: every returned (output_data, error)
    pdf_doc,          \* the uploaded bytes as pikepdf reads them (line 117)
    has_text          \* what check_pdf_has_text returned, None before the call

vars == <<cpu_count, opts, batch_mode, uploaded_files, pc, config_errors, args,
          i, results, errors, overall_progress, shown, rpc, cur_file,
          input_file, output_file, fs, child, ret, caught, warnings, calls,
          launches, returned, pdf_doc, has_text>>

scriptVars == <<pc, config_errors, args, i, results, errors, overall_progress, shown>>
runnerVars == <<rpc, cur_file, input_file, output_file, fs, child, ret, caught,
                warnings, calls, launches, returned>>
inputVars == <<cpu_count, opts, batch_mode, uploaded_files>>
detectVars == <<pdf_doc, has_text>>

----------------------------------------------------------------------------
(* Bounds of the model *)

MaxCpu == 2
MaxFiles == 2
MaxStderrLen == 2
MaxExitCode == 2
MaxPages == 4

----------------------------------------------------------------------------
(* Python values *)

None == <<>>
Some(x) == <<x>>
Value(v) == v[1]

\* Python truthiness of an Optional[bytes] / Optional[str]: None and the
\* empty value are both false (lines 610, 657).
Truthy(v) == v # None /\ Len(Value(v)) > 0

----------------------------------------------------------------------------
(* validate_config, lines 95-108 *)

DpiMin == 72
DpiMax == 600
DpiDefault == 300
JobsMin == 1
JobsDefault == 1
JpegMin == 1
JpegMax == 100
JpegDefault == 75
PngDefault == 75

\* The violation texts; each is a tuple of the text's parts.
ErrDpi == <<"DPI_SHOULD_BE_72_600">>          \* line 100
ErrJobs(n) == <<"THREADS_SHOULD_BE_1_TO", n>> \* line 103, f"...1-{os.cpu_count()}..."
ErrJpeg == <<"JPEG_QUALITY_SHOULD_BE_1_100">> \* line 106

\* dict.get(key, default)
Get(config, key, default) == IF key \in DOMAIN config THEN config[key] ELSE default

DpiBroken(config) ==
    Get(config, "image_dpi", DpiDefault) < DpiMin \/ Get(config, "image_dpi", DpiDefault) > DpiMax

JobsBroken(config, cpus) ==
    Get(config, "jobs", JobsDefault) < JobsMin \/ Get(config, "jobs", JobsDefault) > cpus

JpegBroken(config) ==
    Get(config, "jpeg_quality", JpegDefault) < JpegMin \/ Get(config, "jpeg_quality", JpegDefault) > JpegMax

\* Faulty variant: the validator stops at the first rule that is broken.
validate_config_first(config, cpus) ==
    IF DpiBroken(config) THEN <<ErrDpi>>
    ELSE IF JobsBroken(config, cpus) THEN <<ErrJobs(cpus)>>
    ELSE IF JpegBroken(config) THEN <<ErrJpeg>>
    ELSE <<>>

validate_config(config, cpus) ==
    LET e1 == IF DpiBroken(config) THEN <<ErrDpi>> ELSE <<>>
        e2 == IF JobsBroken(config, cpus) THEN e1 \o <<ErrJobs(cpus)>> ELSE e1
        e3 == IF JpegBroken(config) THEN e2 \o <<ErrJpeg>> ELSE e2
    IN  e3

\* lines 317-322
current_config(o) ==
    [image_dpi |-> o.image_dpi, jobs |-> o.jobs,
     jpeg_quality |-> o.jpeg_quality, png_quality |-> o.png_quality]

----------------------------------------------------------------------------
(* Uploaded files.  A name is a stem and an extension; bytes are a tuple. *)

LowerExt(ext) ==
    CASE ext = "PDF" -> "pdf"
      [] ext = "Pdf" -> "pdf"
      [] OTHER -> ext

\* name.lower().endswith(".pdf"), line 548
IsPdfName(name) == LowerExt(name.ext) = "pdf"

PdfFile == [name |-> [stem |-> "doc", ext |-> "PDF"], data |-> <<1, 2>>]
ImageFile == [name |-> [stem |-> "scan", ext |-> "png"], data |-> <<3>>]
FilePool == {PdfFile, ImageFile}

\* line 346 / line 348: the file the option widgets and the synthesis see
uploaded_file(files) == IF Len(files) > 0 THEN Some(files[1]) ELSE None

----------------------------------------------------------------------------
(* Argument synthesis, lines 536-584 *)

\* str(n) of an integer widget value
Str(n) == ToString(n)

\* Faulty variant: the quality flags are emitted whatever the optimize level.
OptimizeArgsAlways(o) ==
    (IF o.optimize # "0" THEN <<"--optimize", o.optimize>> ELSE <<>>)
    \o <<"--jpeg-quality", Str(o.jpeg_quality)>>
    \o <<"--png-quality", Str(o.png_quality)>>

OptimizeArgs(o) ==
    IF o.optimize # "0"
    THEN <<"--optimize", o.optimize>>
         \o <<"--jpeg-quality", Str(o.jpeg_quality)>>
         \o <<"--png-quality", Str(o.png_quality)>>
    ELSE <<>>

ImageDpiArgs(o, first) ==
    IF ~IsPdfName(first.name) /\ o.image_dpi # 0
    THEN <<"--image-dpi", Str(o.image_dpi)>>
    ELSE <<>>

\* Faulty variant: the mode flag is emitted for every mode.
ModeArgsAlways(o) == <<"--" \o o.mode>>

ModeArgs(o) == IF o.mode # "normal" THEN <<"--" \o o.mode>> ELSE <<>>

JobsArgs(o) == IF o.jobs > 1 THEN <<"--jobs", Str(o.jobs)>> ELSE <<>>

Flag(b, name) == IF b THEN <<name>> ELSE <<>>
Valued(name, v) == IF v # "" THEN <<name, v>> ELSE <<>>

synthesize(o, first) ==
    <<"ocrmypdf">>
    \o ModeArgs(o)
    \o Valued("-l", o.language)
    \o Valued("--pages", o.pages)
    \o ImageDpiArgs(o, first)
    \o Flag(o.rotate_pages, "--rotate-pages")
    \o Flag(o.deskew, "--deskew")
    \o Flag(o.clean, "--clean")
    \o Flag(o.clean_final, "--clean-final")
    \o Valued("--output-type", o.output_type)
    \o OptimizeArgs(o)
    \o Valued("--title", o.title)
    \o Valued("--author", o.author)
    \o Valued("--subject", o.subject)
    \o Valued("--keywords", o.keywords)
    \o JobsArgs(o)

----------------------------------------------------------------------------
(* The child's stderr text and the substring tests of lines 484-493 *)

\* The lines a stderr text is made of.
Fragments ==
    {"PriorOcrFoundError", "page already has text", "TesseractNotFoundError",
     "language", "not found", "Language data Not Found", "priorocrfounderror",
     "exit"}

\* str.lower() of one line
LowerFragment(f) ==
    CASE f = "PriorOcrFoundError" -> "priorocrfounderror"
      [] f = "TesseractNotFoundError" -> "tesseractnotfounderror"
      [] f = "Language data Not Found" -> "language data not found"
      [] OTHER -> f

\* The needles of lines 484-493 that occur in one line as substrings.
FragmentHas(f) ==
    CASE f = "PriorOcrFoundError" -> {"PriorOcrFoundError"}
      [] f = "page already has text" -> {"page already has text"}
      [] f = "TesseractNotFoundError" -> {"TesseractNotFoundError"}
      [] f = "language" -> {"language"}
      [] f = "not found" -> {"not found"}
      [] f = "language data not found" -> {"language", "not found"}
      [] OTHER -> {}

\* needle in text
Contains(text, needle) == \E k \in 1..Len(text) : needle \in FragmentHas(text[k])

\* text.lower()
Lower(text) == [k \in 1..Len(text) |-> LowerFragment(text[k])]

HintAlreadyHasText == "HINT_PDF_ALREADY_HAS_TEXT_LAYER"   \* lines 485-488
HintEngineNotFound == "HINT_TESSERACT_NOT_INSTALLED"      \* lines 490-492
HintLanguagePack == "HINT_LANGUAGE_PACK_NOT_INSTALLED"    \* lines 494-496

\* Faulty variant: the language test comes before the Tesseract test.
HintLanguageFirst(stderr) ==
    IF Contains(stderr, "PriorOcrFoundError") \/ Contains(stderr, "page already has text")
    THEN <<HintAlreadyHasText>>
    ELSE IF Contains(Lower(stderr), "language") /\ Contains(Lower(stderr), "not found")
    THEN <<HintLanguagePack>>
    ELSE IF Contains(stderr, "TesseractNotFoundError")
    THEN <<HintEngineNotFound>>
    ELSE <<>>

\* Faulty variant: three independent ifs in place of the if/elif chain.
HintIndependentIfs(stderr) ==
    (IF Contains(stderr, "PriorOcrFoundError") \/ Contains(stderr, "page already has text")
     THEN <<HintAlreadyHasText>> ELSE <<>>)
    \o (IF Contains(stderr, "TesseractNotFoundError") THEN <<HintEngineNotFound>> ELSE <<>>)
    \o (IF Contains(Lower(stderr), "language") /\ Contains(Lower(stderr), "not found")
        THEN <<HintLanguagePack>> ELSE <<>>)

\* lines 484-496: the texts appended to error_msg by "error_msg +=", in order
Hint(stderr) ==
    IF Contains(stderr, "PriorOcrFoundError") \/ Contains(stderr, "page already has text")
    THEN <<HintAlreadyHasText>>
    ELSE IF Contains(stderr, "TesseractNotFoundError")
    THEN <<HintEngineNotFound>>
    ELSE IF Contains(Lower(stderr), "language") /\ Contains(Lower(stderr), "not found")
    THEN <<HintLanguagePack>>
    ELSE <<>>

\* An error message: the parts the f-strings put together.
\* line 476
MsgNoOutput ==
    [head |-> "NO_OUTPUT_FILE_GENERATED", code |-> 0, stderr |-> <<>>,
     hints |-> <<>>, exc |-> ""]
\* lines 480-496: f"OCR处理失败 (退出码: {returncode})\n{stderr}" + hint
MsgOcrFailed(returncode, stderr) ==
    [head |-> "OCR_FAILED_EXIT_CODE", code |-> returncode, stderr |-> stderr,
     hints |-> Hint(stderr), exc |-> ""]
\* line 501: f"处理过程中发生错误: {str(e)}"
MsgException(e) ==
    [head |-> "ERROR_DURING_PROCESSING", code |-> 0, stderr |-> <<>>,
     hints |-> <<>>, exc |-> e]

Success(output_data) == <<Some(output_data), None>>   \* line 474
Failure(error_msg) == <<None, Some(error_msg)>>       \* lines 478, 498, 503

\* Faulty variant: the except clause drops the exception text.
ExceptDropsText(e) == Failure(MsgException(""))

\* lines 500-503: the except clause
Except(e) == Failure(MsgException(e))

\* Faulty variant: exit code 0 with an existing output file is a success, empty or not.
CollectIgnoresSize(returncode, stderr, files, out) ==
    IF returncode = 0
    THEN IF out \in DOMAIN files
         THEN Success(files[out])
         ELSE Failure(MsgNoOutput)
    ELSE Failure(MsgOcrFailed(returncode, stderr))

\* lines 465-498, once communicate() has returned and while nothing raises:
\* the value of the return statement reached.
Collect(returncode, stderr, files, out) ==
    IF returncode = 0
    THEN IF out \in DOMAIN files /\ Len(files[out]) > 0
         THEN Success(files[out])
         ELSE Failure(MsgNoOutput)
    ELSE Failure(MsgOcrFailed(returncode, stderr))

----------------------------------------------------------------------------
(* Temporary files, lines 439-443 and 504-512 *)

\* tempfile.NamedTemporaryFile(delete=False).name of call number k
TempName(kind, k) == "/tmp/" \o kind \o Str(k)

NoFiles == [n \in {} |-> <<>>]
FsPut(files, name, bytes) ==
    [n \in DOMAIN files \cup {name} |-> IF n = name THEN bytes ELSE files[n]]
FsDel(files, name) == [n \in DOMAIN files \ {name} |-> files[n]]

\* The finally block, lines 504-512: the files left and the failure logged.
\* inRaises / outRaises: os.unlink of that file raises OSError.
Cleanup(files, inF, outF, inRaises, outRaises) ==
    IF inF # None /\ (inRaises \/ Value(inF) \notin DOMAIN files)
    THEN [fs |-> files, warned |-> {Value(inF)}]
    ELSE LET f1 == IF inF # None THEN FsDel(files, Value(inF)) ELSE files
         IN  IF outF # None /\ Value(outF) \in DOMAIN f1
             THEN IF outRaises
                  THEN [fs |-> f1, warned |-> {Value(outF)}]
                  ELSE [fs |-> FsDel(f1, Value(outF)), warned |-> {}]
             ELSE [fs |-> f1, warned |-> {}]

NoChild == [state |-> "none", argv |-> <<>>, returncode |-> 0, stderr |-> <<>>]

----------------------------------------------------------------------------
(* The script run: validation and the gate, lines 316-328 and 515-534 *)

\* Faulty variant: the gate never stops the run.
BlockedNever(errs) == FALSE

\* line 528: if config_errors: ... st.stop()
Blocked(errs) == errs # <<>>

\* line 587
IsBatch(bm, files) == bm /\ Len(files) > 1

Validate ==
    /\ pc = "start"
    /\ config_errors' = validate_config(current_config(opts), cpu_count)
    /\ pc' = IF uploaded_files = <<>> THEN "idle"
             ELSE IF Blocked(config_errors') THEN "stopped"
             ELSE "button"
    /\ UNCHANGED <<args, i, results, errors, overall_progress, shown>>
    /\ UNCHANGED runnerVars
    /\ UNCHANGED inputVars
    /\ UNCHANGED detectVars

\* The button is pressed: lines 534-596 up to the loop / the single call.
ClickProcess ==
    /\ pc = "button"
    /\ args' = synthesize(opts, Value(uploaded_file(uploaded_files)))
    /\ pc' = IF IsBatch(batch_mode, uploaded_files) THEN "batch" ELSE "single"
    /\ i' = 0
    /\ results' = <<>>
    /\ errors' = <<>>
    /\ overall_progress' = [num |-> 0, den |-> Len(uploaded_files)]
    /\ UNCHANGED <<config_errors, shown>>
    /\ UNCHANGED runnerVars
    /\ UNCHANGED inputVars
    /\ UNCHANGED detectVars

----------------------------------------------------------------------------
(* process_single_file, lines 436-512 *)

\* The points of lines 439-458 at which an exception can be raised.
EnterFaults == {"none", "create_input", "write", "create_output", "spawn"}

\* What the child does to the output path before it terminates.
OutputEffects == {"keep", "write", "delete"}
OutputBytes == <<7, 7>>

\* lines 438-458: the call is entered and runs up to Popen, or up to the
\* first exception, which the except clause of line 500 turns into the result.
RunnerEnter(file) ==
    /\ rpc = "idle"
    /\ \E fault \in EnterFaults :
         LET k == calls + 1
             inN == TempName("in", k)
             outN == TempName("out", k)
             withIn == FsPut(fs, inN, IF fault = "write" THEN <<>> ELSE file.data)
             withOut == FsPut(withIn, outN, <<>>)
         IN  /\ calls' = k
             /\ cur_file' = Some(file)
             /\ input_file' = IF fault = "create_input" THEN None ELSE Some(inN)
             /\ output_file' = IF fault \in {"create_input", "write", "create_output"}
                               THEN None ELSE Some(outN)
             /\ fs' = IF fault = "create_input" THEN fs
                      ELSE IF fault \in {"write", "create_output"} THEN withIn
                      ELSE withOut
             /\ IF fault = "none"
                THEN /\ child' = [state |-> "running", argv |-> args \o <<inN, outN>>,
                                  returncode |-> 0, stderr |-> <<>>]
                     /\ launches' = Append(launches, [file |-> file, argv |-> args \o <<inN, outN>>])
                     /\ ret' = None
                     /\ caught' = None
                     /\ rpc' = "communicate"
                ELSE /\ child' = NoChild
                     /\ launches' = launches
                     /\ caught' = Some(fault \o ": OSError")
                     /\ ret' = Except(fault \o ": OSError")
                     /\ rpc' = "finally"
    /\ UNCHANGED <<warnings, returned>>

\* The child process terminates (the environment's step).
ChildExit(codes, texts) ==
    /\ rpc = "communicate"
    /\ child.state = "running"
    /\ \E rc \in codes, err \in texts, effect \in OutputEffects :
         /\ child' = [child EXCEPT !.state = "exited", !.returncode = rc, !.stderr = err]
         /\ fs' = CASE effect = "keep" -> fs
                    [] effect = "write" -> FsPut(fs, Value(output_file), OutputBytes)
                    [] effect = "delete" -> FsDel(fs, Value(output_file))
    /\ UNCHANGED <<rpc, cur_file, input_file, output_file, ret, caught, warnings,
                   calls, launches, returned>>
    /\ UNCHANGED scriptVars
    /\ UNCHANGED inputVars
    /\ UNCHANGED detectVars

\* The read of line 470-471 is reached.
ReadReached ==
    /\ child.returncode = 0
    /\ Value(output_file) \in DOMAIN fs
    /\ Len(fs[Value(output_file)]) > 0

\* lines 463-503: communicate() returns (or raises while decoding the
\* streams, after the child was waited for) and the outcome is classified.
Communicate ==
    /\ rpc = "communicate"
    /\ child.state = "exited"
    /\ \E fault \in {"none", "communicate", "read"} :
         /\ fault = "read" => ReadReached
         /\ caught' = CASE fault = "none" -> None
                        [] fault = "communicate" -> Some("communicate: UnicodeDecodeError")
                        [] fault = "read" -> Some("read: OSError")
         /\ ret' = IF fault = "none"
                   THEN Collect(child.returncode, child.stderr, fs, Value(output_file))
                   ELSE Except(Value(caught'))
    /\ rpc' = "finally"
    /\ UNCHANGED <<cur_file, input_file, output_file, fs, child, warnings, calls,
                   launches, returned>>
    /\ UNCHANGED scriptVars
    /\ UNCHANGED inputVars
    /\ UNCHANGED detectVars

\* lines 504-512
Finally ==
    /\ rpc = "finally"
    /\ \E inRaises \in BOOLEAN, outRaises \in BOOLEAN :
         LET c == Cleanup(fs, input_file, output_file, inRaises, outRaises)
         IN  /\ fs' = c.fs
             /\ warnings' = warnings \cup c.warned
    /\ rpc' = "return"
    /\ UNCHANGED <<cur_file, input_file, output_file, child, ret, caught, calls,
                   launches, returned>>
    /\ UNCHANGED scriptVars
    /\ UNCHANGED inputVars
    /\ UNCHANGED detectVars

----------------------------------------------------------------------------
(* The batch loop, lines 594-621, and the single-file branch, lines 646-681 *)

\* Faulty variant: every returned pair is taken for a success.
KeptAny(output_data) == TRUE

\* line 610 / line 657: if output_data:
Kept(output_data) == Truthy(output_data)

\* line 619
Progress(index, total) == [num |-> index + 1, den |-> total]

\* line 608: the loop takes file i and calls the runner
BatchCall ==
    /\ pc = "batch"
    /\ i < Len(uploaded_files)
    /\ RunnerEnter(uploaded_files[i + 1])
    /\ UNCHANGED scriptVars
    /\ UNCHANGED inputVars
    /\ UNCHANGED detectVars

\* lines 608-619: the call returns and the loop body finishes
BatchReturn ==
    /\ pc = "batch"
    /\ rpc = "return"
    /\ IF Kept(ret[1])
       THEN /\ results' = Append(results, <<Value(cur_file), ret[1]>>)
            /\ errors' = errors
       ELSE /\ errors' = Append(errors, <<Value(cur_file).name, ret[2]>>)
            /\ results' = results
    /\ overall_progress' = Progress(i, Len(uploaded_files))
    /\ i' = i + 1
    /\ rpc' = "idle"
    /\ returned' = Append(returned, ret)
    /\ UNCHANGED <<pc, config_errors, args, shown>>
    /\ UNCHANGED <<cur_file, input_file, output_file, fs, child, ret, caught,
                   warnings, calls, launches>>
    /\ UNCHANGED inputVars
    /\ UNCHANGED detectVars

\* line 621: the loop is over
BatchDone ==
    /\ pc = "batch"
    /\ rpc = "idle"
    /\ i = Len(uploaded_files)
    /\ pc' = "done"
    /\ UNCHANGED <<config_errors, args, i, results, errors, overall_progress, shown>>
    /\ UNCHANGED runnerVars
    /\ UNCHANGED inputVars
    /\ UNCHANGED detectVars

\* line 655
SingleCall ==
    /\ pc = "single"
    /\ RunnerEnter(Value(uploaded_file(uploaded_files)))
    /\ UNCHANGED scriptVars
    /\ UNCHANGED inputVars
    /\ UNCHANGED detectVars

\* lines 655-681
SingleReturn ==
    /\ pc = "single"
    /\ rpc = "return"
    /\ shown' = IF Kept(ret[1]) THEN <<"download", ret[1]>> ELSE <<"error", ret[2]>>
    /\ pc' = "done"
    /\ rpc' = "idle"
    /\ returned' = Append(returned, ret)
    /\ UNCHANGED <<config_errors, args, i, results, errors, overall_progress>>
    /\ UNCHANGED <<cur_file, input_file, output_file, fs, child, ret, caught,
                   warnings, calls, launches>>
    /\ UNCHANGED inputVars
    /\ UNCHANGED detectVars

----------------------------------------------------------------------------
(* check_pdf_has_text, lines 110-133 *)

PagesChecked == 3   \* line 118: pdf.pages[:3]

\* The text operators of line 124 that occur in a content stream.
StreamHas(stream) ==
    CASE stream = "BT (a) Tj ET" -> {"Tj"}
      [] stream = "BT [(a)] TJ ET" -> {"TJ"}
      [] stream = "BT 1 0 Td ET" -> {"Td"}
      [] OTHER -> {}

\* A page: reading it raises, or it has no /Contents, or it has a stream.
Pages ==
    {[raises |-> TRUE, has_contents |-> FALSE, stream |-> ""],
     [raises |-> FALSE, has_contents |-> FALSE, stream |-> ""]}
    \cup {[raises |-> FALSE, has_contents |-> TRUE, stream |-> c] :
            c \in {"BT (a) Tj ET", "BT [(a)] TJ ET", "BT 1 0 Td ET", "q 1 0 0 1 0 0 cm Q"}}

\* A document: bytes pikepdf cannot open, or a sequence of pages.
NoDoc == [parses |-> FALSE, pages |-> <<>>]
Docs == {NoDoc} \cup {[parses |-> TRUE, pages |-> ps] :
                        ps \in UNION {[1..n -> Pages] : n \in 0..MaxPages}}

\* lines 119-127: one page of the loop
PageHasText(p) ==
    /\ ~p.raises
    /\ p.has_contents
    /\ StreamHas(p.stream) \cap {"Tj", "TJ", "Td"} # {}

\* lines 118-125: the loop over pdf.pages[:3] reaches "return True"
DetectsText(doc) ==
    \E k \in 1..Len(doc.pages) : k <= PagesChecked /\ PageHasText(doc.pages[k])

\* lines 112-133: the value returned, whether the temporary copy is still
\* on disk at the return, and whether a failed os.unlink was logged.
\* fault: NamedTemporaryFile ("create") or write/flush ("write") raises.
DetectOutcome(doc, fault, unlinkRaises) ==
    IF fault = "create" THEN [result |-> FALSE, left |-> FALSE, warned |-> FALSE]
    ELSE IF fault = "write" THEN [result |-> FALSE, left |-> TRUE, warned |-> FALSE]
    ELSE IF ~doc.parses THEN [result |-> FALSE, left |-> TRUE, warned |-> FALSE]
    ELSE IF DetectsText(doc) THEN [result |-> TRUE, left |-> TRUE, warned |-> FALSE]
    ELSE IF unlinkRaises THEN [result |-> FALSE, left |-> TRUE, warned |-> TRUE]
    ELSE [result |-> FALSE, left |-> FALSE, warned |-> FALSE]

DetectTemp == TempName("pdf", 1)

\* line 383: the page calls check_pdf_has_text(file_data)
Detect ==
    /\ has_text = None
    /\ \E fault \in {"none", "create", "write"}, unlinkRaises \in BOOLEAN :
         /\ unlinkRaises => (fault = "none" /\ pdf_doc.parses /\ ~DetectsText(pdf_doc))
         /\ LET d == DetectOutcome(pdf_doc, fault, unlinkRaises)
            IN  /\ has_text' = Some(d.result)
                /\ fs' = IF d.left
                         THEN FsPut(fs, DetectTemp,
                                    IF fault = "write" THEN <<>> ELSE uploaded_files[1].data)
                         ELSE fs
                /\ warnings' = IF d.warned THEN warnings \cup {DetectTemp} ELSE warnings
    /\ UNCHANGED <<rpc, cur_file, input_file, output_file, child, ret, caught, calls,
                   launches, returned, pdf_doc>>
    /\ UNCHANGED scriptVars
    /\ UNCHANGED inputVars

----------------------------------------------------------------------------
(* Initial states: the widget values and the uploads of one script run *)

\* line 296: value=min(4, os.cpu_count() or 4)
DefaultJobs(cpus) == IF cpus < 4 THEN cpus ELSE 4

\* The widget defaults, lines 194-314
DefaultOpts ==
    [mode |-> "normal", language |-> "chi_sim", pages |-> "", image_dpi |-> DpiDefault,
     rotate_pages |-> FALSE, deskew |-> FALSE, clean |-> FALSE, clean_final |-> FALSE,
     output_type |-> "pdfa", optimize |-> "1", jpeg_quality |-> JpegDefault,
     png_quality |-> PngDefault, title |-> "", author |-> "", subject |-> "",
     keywords |-> "", jobs |-> DefaultJobs(MaxCpu)]

\* The uploads: one file at most without the batch checkbox (lines 339-353)
FileSeqs(bm) ==
    UNION {[1..n -> FilePool] : n \in 0..(IF bm THEN MaxFiles ELSE 1)}

\* stderr texts of at most n lines
StderrTexts(n) == UNION {[1..m -> Fragments] : m \in 0..n}

InitRun(o, cpus, bm, files) ==
    /\ cpu_count = cpus
    /\ opts = o
    /\ batch_mode = bm
    /\ uploaded_files = files
    /\ pc = "start"
    /\ config_errors = <<>>
    /\ args = <<>>
    /\ i = 0
    /\ results = <<>>
    /\ errors = <<>>
    /\ overall_progress = [num |-> 0, den |-> Len(files)]
    /\ shown = <<>>
    /\ rpc = "idle"
    /\ cur_file = None
    /\ input_file = None
    /\ output_file = None
    /\ fs = NoFiles
    /\ child = NoChild
    /\ ret = None
    /\ caught = None
    /\ warnings = {}
    /\ calls = 0
    /\ launches = <<>>
    /\ returned = <<>>

\* A script run in which the text detector is not looked at.
InitWith(o, cpus, bm, files) ==
    /\ InitRun(o, cpus, bm, files)
    /\ pdf_doc = NoDoc
    /\ has_text = None

(* The whole pipeline, a few option values on each side of every range.  *)
PipelineOpts ==
    {[DefaultOpts EXCEPT !.image_dpi = d, !.jobs = j, !.jpeg_quality = q] :
        d \in {DpiMin - 1, DpiDefault}, j \in {JobsMin, MaxCpu + 1},
        q \in {JpegDefault, JpegMax + 1}}

Init ==
    \E o \in PipelineOpts, bm \in BOOLEAN :
        \E files \in FileSeqs(bm) : InitWith(o, MaxCpu, bm, files)

PipelineTexts == {<<>>, <<"TesseractNotFoundError">>}

Next ==
    \/ Validate
    \/ ClickProcess
    \/ BatchCall
    \/ ChildExit({0, 1}, PipelineTexts)
    \/ Communicate
    \/ Finally
    \/ BatchReturn
    \/ BatchDone
    \/ SingleCall
    \/ SingleReturn

Spec == Init /\ [][Next]_vars

(* The validator alone: every combination of values around the ranges,   *)
(* no upload, so that the script run ends after the validation.          *)
ValidateOpts ==
    {[DefaultOpts EXCEPT !.image_dpi = d, !.jobs = j, !.jpeg_quality = q,
                         !.png_quality = p] :
        d \in {DpiMin - 1, DpiMin, DpiDefault, DpiMax, DpiMax + 1},
        j \in (JobsMin - 1)..(MaxCpu + 1),
        q \in {JpegMin - 1, JpegMin, JpegDefault, JpegMax, JpegMax + 1},
        p \in {JpegMin - 1, PngDefault, JpegMax + 1}}

InitValidate ==
    \E o \in ValidateOpts, cpus \in 1..MaxCpu : InitWith(o, cpus, FALSE, <<>>)

NextValidate == Validate

SpecValidate == InitValidate /\ [][NextValidate]_vars

(* The synthesis alone: valid option values, one upload, up to the click. *)
SynthOpts ==
    {[DefaultOpts EXCEPT !.mode = m, !.language = l, !.pages = pg, !.deskew = dk,
                         !.output_type = ot, !.optimize = op, !.jpeg_quality = q,
                         !.png_quality = p, !.title = t, !.jobs = j] :
        m \in {"normal", "skip-text", "force-ocr", "redo-ocr"},
        l \in {"eng", "chi_sim"}, pg \in {"", "1,3,5-10"}, dk \in BOOLEAN,
        ot \in {"pdfa", "pdf"}, op \in {"0", "1", "2", "3"},
        q \in {JpegMin, JpegDefault}, p \in {PngDefault, JpegMax},
        t \in {"", "Report"}, j \in JobsMin..MaxCpu}

InitSynth ==
    \E o \in SynthOpts, f \in FilePool : InitWith(o, MaxCpu, FALSE, <<f>>)

NextSynth == Validate \/ ClickProcess

SpecSynth == InitSynth /\ [][NextSynth]_vars

(* One call of the runner: a valid default configuration, one upload,    *)
(* every exit code and every stderr text of the bounded alphabet.        *)
InitRunner ==
    \E f \in FilePool : InitWith(DefaultOpts, MaxCpu, FALSE, <<f>>)

NextRunner ==
    \/ Validate
    \/ ClickProcess
    \/ SingleCall
    \/ ChildExit(0..MaxExitCode, StderrTexts(MaxStderrLen))
    \/ Communicate
    \/ Finally
    \/ SingleReturn

SpecRunner == InitRunner /\ [][NextRunner]_vars

(* The run up to the launch of the child for one upload: every flag of    *)
(* the synthesis switched on and off.                                    *)
LaunchOpts ==
    {[DefaultOpts EXCEPT !.mode = m, !.pages = pg, !.rotate_pages = rp, !.deskew = dk,
                         !.clean = cl, !.clean_final = cf, !.optimize = op,
                         !.title = t, !.author = au, !.subject = su,
                         !.keywords = kw, !.jobs = j] :
        m \in {"normal", "skip-text", "force-ocr", "redo-ocr"},
        pg \in {"", "1,3,5-10"}, rp \in BOOLEAN, dk \in BOOLEAN, cl \in BOOLEAN,
        cf \in BOOLEAN, op \in {"0", "2"}, t \in {"", "Report"},
        au \in {"", "Ann"}, su \in {"", "Scan"}, kw \in {"", "ocr"},
        j \in JobsMin..MaxCpu}

InitLaunch ==
    \E o \in LaunchOpts, f \in FilePool : InitWith(o, MaxCpu, FALSE, <<f>>)

NextLaunch == Validate \/ ClickProcess \/ SingleCall

SpecLaunch == InitLaunch /\ [][NextLaunch]_vars

(* The text detector alone: every document of at most MaxPages pages.    *)
InitDetect ==
    \E doc \in Docs :
        /\ InitRun(DefaultOpts, MaxCpu, FALSE, <<PdfFile>>)
        /\ pdf_doc = doc
        /\ has_text = None

NextDetect == Detect

SpecDetect == InitDetect /\ [][NextDetect]_vars

TypeOK ==
    /\ pc \in {"start", "idle", "stopped", "button", "batch", "single", "done"}
    /\ rpc \in {"idle", "communicate", "finally", "return"}
    /\ i \in 0..Len(uploaded_files)
    /\ calls \in 0..Len(uploaded_files)

----------------------------------------------------------------------------
(* Properties *)

IsSuccess(r) == r # None /\ r[1] # None /\ r[2] = None
IsFailure(r) == r # None /\ r[1] = None /\ r[2] # None

\* The call in progress has decided its result and not yet cleaned up.
Decided == rpc = "finally"
\* The call in progress has run its finally block and is about to return.
Returning == rpc = "return"
\* The child of the call in progress has terminated.
Exited == child.state = "exited"

ThisCallFiles == {TempName("in", calls), TempName("out", calls)}

\* The failure kinds of the error taxonomy, read off an error message.
ErrorKind(m) ==
    CASE m.head = "NO_OUTPUT_FILE_GENERATED" -> "NoOutputProduced"
      [] m.head = "ERROR_DURING_PROCESSING" -> "RunnerException"
      [] m.head = "OCR_FAILED_EXIT_CODE" /\ m.hints = <<HintAlreadyHasText>> -> "AlreadyHasText"
      [] m.head = "OCR_FAILED_EXIT_CODE" /\ m.hints = <<HintEngineNotFound>> -> "EngineNotFound"
      [] m.head = "OCR_FAILED_EXIT_CODE" /\ m.hints = <<HintLanguagePack>> -> "LanguagePackMissing"
      [] m.head = "OCR_FAILED_EXIT_CODE" /\ m.hints = <<>> -> "UnclassifiedFailure"
      [] OTHER -> "Unknown"

(* C1: when a call of process_single_file is about to return, none of the  *)
(* two temporary files of that call exists any more, except a file whose   *)
(* own removal failed and was logged: a failed removal of one file leaves  *)
(* no other file of the call behind.                                       *)
C1_NoTempFileLeft ==
    Returning => \A n \in ThisCallFiles : n \in DOMAIN fs => n \in warnings

(* C2: validation gates invocation.  Once the validator has run, a         *)
(* non-empty result means that no runner call was made, no child was       *)
(* launched and no temporary file exists, and the run is stopped; any      *)
(* call, launch or temporary file implies an empty validator result for    *)
(* the current option values.                                              *)
C2_ValidationGatesInvocation ==
    /\ (pc # "start" /\ config_errors # <<>>) =>
          /\ pc \in {"stopped", "idle"}
          /\ calls = 0 /\ launches = <<>> /\ DOMAIN fs = {} /\ rpc = "idle"
    /\ (calls > 0 \/ launches # <<>> \/ DOMAIN fs # {} \/ rpc # "idle") =>
          /\ pc \notin {"start", "stopped"}
          /\ config_errors = <<>>
          /\ validate_config(current_config(opts), cpu_count) = <<>>

C2_Witness ==
    pc = "stopped" /\ uploaded_files # <<>> /\ Len(config_errors) >= 2

\* The indexes 1..n, in order, whose returned pair satisfies P.
Indexes(n, P(_)) == SelectSeq([k \in 1..n |-> k], P)

(* C3: failure isolation in the batch loop.  At every point of a batch    *)
(* the failures are exactly the (name, message) pairs of the files whose   *)
(* call returned an error, in upload order, the successes are exactly the  *)
(* other files handled so far with their output bytes, in upload order,    *)
(* and when the batch is done every one of the N files was handled:        *)
(* successes + failures = N.                                               *)
C3_FailureIsolation ==
    IsBatch(batch_mode, uploaded_files) /\ pc \in {"batch", "done"} =>
        LET n == Len(returned)
            failed == Indexes(n, LAMBDA k : returned[k][2] # None)
            passed == Indexes(n, LAMBDA k : returned[k][2] = None)
        IN  /\ n = i
            /\ errors = [k \in 1..Len(failed) |->
                            <<uploaded_files[failed[k]].name, returned[failed[k]][2]>>]
            /\ results = [k \in 1..Len(passed) |->
                            <<uploaded_files[passed[k]], returned[passed[k]][1]>>]
            /\ \A k \in 1..Len(passed) : IsSuccess(returned[passed[k]])
            /\ Len(results) + Len(errors) = n
            /\ pc = "done" => n = Len(uploaded_files) /\ calls = Len(uploaded_files)

C3_Witness ==
    /\ pc = "done" /\ Len(uploaded_files) = 2
    /\ IsFailure(returned[1]) /\ IsSuccess(returned[2])
    /\ Len(errors) = 1 /\ Len(results) = 1

\* The parts of C4 that do not depend on the cleanup: one call per file, in
\* upload order, never two at once, and the progress reported.
BatchOrderAndProgress ==
    IsBatch(batch_mode, uploaded_files) /\ pc \in {"batch", "done"} =>
        /\ calls \in {i, i + 1}
        /\ calls = i + 1 <=> rpc # "idle"
        /\ rpc = "idle" => child.state # "running"
        /\ rpc # "idle" => cur_file = Some(uploaded_files[calls])
        /\ overall_progress = [num |-> i, den |-> Len(uploaded_files)]
        /\ pc = "done" => overall_progress.num = overall_progress.den

(* C4: the batch loop is strictly sequential and retry-free: one call per *)
(* file in upload order, progress (i+1)/total after file i, and, when the  *)
(* call for a file is in progress, the temporary files of every earlier    *)
(* call of the batch have been cleaned up (none is left but a file whose   *)
(* own removal failed and was logged).                                     *)
C4_SequentialAndCleaned ==
    /\ BatchOrderAndProgress
    /\ IsBatch(batch_mode, uploaded_files) /\ pc = "batch" /\ rpc # "idle" =>
          \A k \in 1..(calls - 1) : \A kind \in {"in", "out"} :
              TempName(kind, k) \in DOMAIN fs => TempName(kind, k) \in warnings

\* The call in progress has classified a nonzero exit code: communicate()
\* returned the streams and the else branch of line 479 was taken.
ClassifiedExit ==
    /\ rpc \in {"finally", "return"}
    /\ Exited
    /\ child.returncode # 0
    /\ caught = None

HasPriorOcr(text) ==
    Contains(text, "PriorOcrFoundError") \/ Contains(text, "page already has text")
HasTesseract(text) == Contains(text, "TesseractNotFoundError")
HasLanguage(text) ==
    Contains(Lower(text), "language") /\ Contains(Lower(text), "not found")

(* C5, as stated: on a nonzero exit code, a stderr text that contains     *)
(* "TesseractNotFoundError" is classified EngineNotFound whatever else it  *)
(* contains.                                                               *)
C5_Original ==
    ClassifiedExit /\ HasTesseract(child.stderr) =>
        IsFailure(ret) /\ ErrorKind(Value(ret[2])) = "EngineNotFound"

(* C5, amended: on a nonzero exit code, a stderr text that contains       *)
(* "TesseractNotFoundError" and neither "PriorOcrFoundError" nor "page     *)
(* already has text" is classified EngineNotFound, whether or not it also  *)
(* contains "language" and "not found"; with one of the two text-layer     *)
(* markers it is classified AlreadyHasText.                                *)
C5_EngineNotFound ==
    ClassifiedExit /\ HasTesseract(child.stderr) =>
        /\ IsFailure(ret)
        /\ ErrorKind(Value(ret[2])) =
              IF HasPriorOcr(child.stderr) THEN "AlreadyHasText" ELSE "EngineNotFound"

C5_Witness ==
    /\ Returning /\ ClassifiedExit
    /\ HasTesseract(child.stderr) /\ HasLanguage(child.stderr)
    /\ ErrorKind(Value(ret[2])) = "EngineNotFound"

(* C6: on a nonzero exit code the failure kind is the first match in the  *)
(* order AlreadyHasText, EngineNotFound, LanguagePackMissing, else         *)
(* UnclassifiedFailure; at most one hint is appended, and the message      *)
(* carries the exit code and the stderr text as the child gave them.       *)
C6_PriorityOrder ==
    ClassifiedExit =>
        /\ IsFailure(ret)
        /\ LET m == Value(ret[2])
               e == child.stderr
           IN  /\ ErrorKind(m) =
                      IF HasPriorOcr(e) THEN "AlreadyHasText"
                      ELSE IF HasTesseract(e) THEN "EngineNotFound"
                      ELSE IF HasLanguage(e) THEN "LanguagePackMissing"
                      ELSE "UnclassifiedFailure"
               /\ Len(m.hints) <= 1
               /\ m.head = "OCR_FAILED_EXIT_CODE"
               /\ m.code = child.returncode
               /\ m.stderr = e

C6_Witness ==
    /\ Returning /\ ClassifiedExit
    /\ HasPriorOcr(child.stderr) /\ HasTesseract(child.stderr)
    /\ ErrorKind(Value(ret[2])) = "AlreadyHasText"
    /\ Value(ret[2]).code = 2

\* The output file of the call in progress exists and is not empty.
OutputNonEmpty ==
    /\ output_file # None
    /\ Value(output_file) \in DOMAIN fs
    /\ Len(fs[Value(output_file)]) > 0

(* C7, as stated: the runner reports success if and only if the child     *)
(* exited with code 0 and the output file exists with size > 0; exit code  *)
(* 0 with a missing or empty output file yields NoOutputProduced.          *)
C7_Original ==
    Decided /\ Exited =>
        /\ IsSuccess(ret) <=> (child.returncode = 0 /\ OutputNonEmpty)
        /\ (child.returncode = 0 /\ ~OutputNonEmpty) =>
              IsFailure(ret) /\ ErrorKind(Value(ret[2])) = "NoOutputProduced"

(* C7, amended: the runner reports success if and only if the child       *)
(* exited with code 0, the output file exists with size > 0 and no         *)
(* exception was raised while the streams were collected or the output     *)
(* was read; the bytes returned are that file's contents; exit code 0      *)
(* with a missing or empty output file yields NoOutputProduced unless such *)
(* an exception was raised; a nonzero exit code never yields success.      *)
C7_SuccessSignal ==
    Decided /\ Exited =>
        /\ IsSuccess(ret) <=> (child.returncode = 0 /\ OutputNonEmpty /\ caught = None)
        /\ IsSuccess(ret) => Value(ret[1]) = fs[Value(output_file)] /\ Kept(ret[1])
        /\ (child.returncode = 0 /\ ~OutputNonEmpty /\ caught = None) =>
              IsFailure(ret) /\ ErrorKind(Value(ret[2])) = "NoOutputProduced"
        /\ child.returncode # 0 => IsFailure(ret)

C7_Witness ==
    /\ Decided /\ Exited /\ IsSuccess(ret)
    /\ child.returncode = 0 /\ Value(ret[1]) = OutputBytes

\* os.unlink raised in the finally block of the call in progress.
CleanupRaised == Returning /\ (warnings \cap ThisCallFiles) # {}

(* C8, as stated: the call returns a pair with exactly one component set, *)
(* and an exception raised inside the call, the removal of the temporary   *)
(* files included, results in the RunnerException failure whose message    *)
(* includes the exception text.                                            *)
C8_Original ==
    Returning =>
        /\ IsSuccess(ret) \/ IsFailure(ret)
        /\ (caught # None \/ CleanupRaised) =>
              IsFailure(ret) /\ ErrorKind(Value(ret[2])) = "RunnerException"

\* The pair of the call in progress, once decided, and the exception caught.
C8_ResultPair ==
    rpc \in {"finally", "return"} =>
        /\ IsSuccess(ret) \/ IsFailure(ret)
        /\ IsSuccess(ret) => Len(Value(ret[1])) > 0
        /\ caught # None =>
              /\ IsFailure(ret)
              /\ ErrorKind(Value(ret[2])) = "RunnerException"
              /\ Value(ret[2]).exc = Value(caught)
        /\ caught = None /\ IsFailure(ret) =>
              ErrorKind(Value(ret[2])) # "RunnerException"

(* C8, amended: the call returns a pair with exactly one component set,   *)
(* either (non-empty output bytes, no error) or (no bytes, error message); *)
(* an exception raised before the cleanup (creating or writing the         *)
(* temporary files, spawning, collecting the streams, reading the output)  *)
(* results in the RunnerException failure whose message includes the       *)
(* exception text, and only such an exception does; an exception raised    *)
(* while removing the temporary files is logged and leaves the pair as     *)
(* it was decided.                                                         *)
C8_NoFaultEscapes ==
    /\ []C8_ResultPair
    /\ [][rpc = "finally" => (rpc' = "return" /\ ret' = ret)]_vars

C8_Witness ==
    /\ Returning /\ CleanupRaised /\ caught # None
    /\ ErrorKind(Value(ret[2])) = "RunnerException"

\* The positions of a token in an argument list.
Positions(argv, token) == {k \in 1..Len(argv) : argv[k] = token}

\* The argument list has been synthesized in this run.
Synthesized == pc \in {"batch", "single", "done"}

(* C9: with optimize level "0" the synthesized arguments hold none of     *)
(* --optimize, --jpeg-quality, --png-quality; with level "1", "2" or "3"   *)
(* they hold each exactly once, each followed by its value, as six         *)
(* consecutive tokens in the order --optimize, --jpeg-quality,             *)
(* --png-quality.                                                          *)
C9_OptimizeFlags ==
    Synthesized =>
        LET po == Positions(args, "--optimize")
            pj == Positions(args, "--jpeg-quality")
            pp == Positions(args, "--png-quality")
        IN  IF opts.optimize = "0"
            THEN po = {} /\ pj = {} /\ pp = {}
            ELSE /\ Cardinality(po) = 1 /\ Cardinality(pj) = 1 /\ Cardinality(pp) = 1
                 /\ \E k \in po :
                       /\ k + 5 <= Len(args)
                       /\ args[k + 1] = opts.optimize
                       /\ pj = {k + 2}
                       /\ args[k + 3] = ToString(opts.jpeg_quality)
                       /\ pp = {k + 4}
                       /\ args[k + 5] = ToString(opts.png_quality)

C9_Witness ==
    /\ pc = "single" /\ opts.optimize = "0" /\ opts.jpeg_quality = 1
    /\ Positions(args, "--output-type") # {}

\* The positions of a violation in the validator's result.
ErrPositions(errs, e) == {k \in 1..Len(errs) : errs[k] = e}

(* C10: the validator returns exactly the violations whose rule is        *)
(* broken, in the order DPI, thread count, JPEG quality: a DPI violation   *)
(* iff image_dpi is outside [72,600], a thread-count violation iff jobs is *)
(* outside [1, cpu_count] for the cpu_count of the host, a JPEG violation  *)
(* iff jpeg_quality is outside [1,100]; every rule is evaluated whatever   *)
(* the others gave, and png_quality has no influence.                      *)
C10_ExactViolations ==
    pc # "start" =>
        LET dpiBad == opts.image_dpi < 72 \/ opts.image_dpi > 600
            jobsBad == opts.jobs < 1 \/ opts.jobs > cpu_count
            jpegBad == opts.jpeg_quality < 1 \/ opts.jpeg_quality > 100
            pd == ErrPositions(config_errors, ErrDpi)
            pj == ErrPositions(config_errors, ErrJobs(cpu_count))
            pq == ErrPositions(config_errors, ErrJpeg)
            count(b) == IF b THEN 1 ELSE 0
        IN  /\ Cardinality(pd) = count(dpiBad)
            /\ Cardinality(pj) = count(jobsBad)
            /\ Cardinality(pq) = count(jpegBad)
            /\ Len(config_errors) = count(dpiBad) + count(jobsBad) + count(jpegBad)
            /\ \A a \in pd : \A b \in pj \cup pq : a < b
            /\ \A a \in pj : \A b \in pq : a < b

C10_Witness ==
    /\ pc # "start" /\ Len(config_errors) = 3
    /\ opts.image_dpi > 600 /\ opts.jobs > cpu_count /\ opts.jpeg_quality < 1
    /\ opts.png_quality > 100

\* The value that follows a flag in an argument list, None when the flag is
\* absent or last.
ValueOf(argv, flag) ==
    IF \E k \in Positions(argv, flag) : k < Len(argv)
    THEN Some(argv[(CHOOSE k \in Positions(argv, flag) : k < Len(argv)) + 1])
    ELSE None

(* C11: every launch of the external tool, each file of a batch included, *)
(* has --image-dpi followed by the configured DPI in its argument list     *)
(* exactly when the input file of that launch is not a PDF.                *)
C11_ImageDpiPerLaunch ==
    \A k \in 1..Len(launches) :
        LET l == launches[k]
        IN  IF IsPdfName(l.file.name)
            THEN Positions(l.argv, "--image-dpi") = {}
            ELSE ValueOf(l.argv, "--image-dpi") = Some(ToString(opts.image_dpi))

\* The flags of rules 1 to 9 in rule order, each with the number of tokens
\* it takes (the flag alone, or the flag and its value).
RuleFlags ==
    << [flag |-> "--normal", width |-> 1], [flag |-> "--skip-text", width |-> 1],
       [flag |-> "--force-ocr", width |-> 1], [flag |-> "--redo-ocr", width |-> 1],
       [flag |-> "-l", width |-> 2], [flag |-> "--pages", width |-> 2],
       [flag |-> "--image-dpi", width |-> 2],
       [flag |-> "--rotate-pages", width |-> 1], [flag |-> "--deskew", width |-> 1],
       [flag |-> "--clean", width |-> 1], [flag |-> "--clean-final", width |-> 1],
       [flag |-> "--output-type", width |-> 2],
       [flag |-> "--optimize", width |-> 2], [flag |-> "--jpeg-quality", width |-> 2],
       [flag |-> "--png-quality", width |-> 2],
       [flag |-> "--title", width |-> 2], [flag |-> "--author", width |-> 2],
       [flag |-> "--subject", width |-> 2], [flag |-> "--keywords", width |-> 2],
       [flag |-> "--jobs", width |-> 2] >>

ModeToken(m) ==
    CASE m = "normal" -> "--normal"
      [] m = "skip-text" -> "--skip-text"
      [] m = "force-ocr" -> "--force-ocr"
      [] m = "redo-ocr" -> "--redo-ocr"

\* An argument list is the command, the rule tokens in rule order with
\* nothing else between them, and two paths.
OrderStable(argv) ==
    LET n == Len(argv)
        body == SubSeq(argv, 2, n - 2)
        at(r) == Positions(body, RuleFlags[r].flag)
        pos(r) == CHOOSE k \in at(r) : TRUE
        rules == 1..Len(RuleFlags)
    IN  /\ n >= 3
        /\ argv[1] = "ocrmypdf"
        /\ \A r \in rules : Cardinality(at(r)) <= 1
        /\ \A a \in rules, b \in rules :
              (a < b /\ at(a) # {} /\ at(b) # {}) =>
                  pos(a) + RuleFlags[a].width <= pos(b)
        /\ \A k \in 1..Len(body) :
              \E r \in rules :
                  at(r) # {} /\ pos(r) <= k /\ k < pos(r) + RuleFlags[r].width
        /\ \E c \in 1..calls :
              argv[n - 1] = TempName("in", c) /\ argv[n] = TempName("out", c)

(* C12: the argument list of every launch is the command name, then the  *)
(* tokens of rules 1 to 9 in rule order and nothing else, then the input  *)
(* path and the output path as the last two tokens; the mode token is     *)
(* present iff the mode is not normal and is the token of that mode       *)
(* ("--normal" never appears); --jobs with the job count is present iff   *)
(* jobs > 1; language, pages and the metadata values follow their flags.  *)
C12_OrderStable ==
    \A k \in 1..Len(launches) :
        LET argv == launches[k].argv
        IN  /\ OrderStable(argv)
            /\ \A m \in {"normal", "skip-text", "force-ocr", "redo-ocr"} :
                  Positions(argv, ModeToken(m)) # {} <=>
                      (m = opts.mode /\ m # "normal")
            /\ Positions(argv, "--jobs") # {} <=> opts.jobs > 1
            /\ opts.jobs > 1 => ValueOf(argv, "--jobs") = Some(ToString(opts.jobs))
            /\ ValueOf(argv, "-l") = Some(opts.language)
            /\ ValueOf(argv, "--pages") = IF opts.pages = "" THEN None ELSE Some(opts.pages)
            /\ ValueOf(argv, "--title") = IF opts.title = "" THEN None ELSE Some(opts.title)
            /\ ValueOf(argv, "--keywords") =
                  IF opts.keywords = "" THEN None ELSE Some(opts.keywords)
            /\ Positions(argv, "--clean-final") # {} <=> opts.clean_final

C12_Witness ==
    /\ Len(launches) = 1 /\ rpc = "communicate"
    /\ opts.mode = "force-ocr" /\ opts.jobs > 1 /\ opts.keywords # "" /\ opts.rotate_pages
    /\ opts.optimize = "2" /\ ~IsPdfName(launches[1].file.name)
    /\ Len(launches[1].argv) = 28
    /\ launches[1].argv[2] = "--force-ocr"
    /\ launches[1].argv[3] = "-l"

\* The detector has returned.
DetectReturned == has_text # None

\* What the detector must answer: some page among the first three has a
\* content stream holding Tj, TJ or Td.
DetectorAnswer ==
    DetectReturned =>
        (Value(has_text) <=>
            /\ pdf_doc.parses
            /\ DetectTemp \in DOMAIN fs
            /\ fs[DetectTemp] # <<>>
            /\ \E k \in 1..Len(pdf_doc.pages) :
                  /\ k <= 3
                  /\ ~pdf_doc.pages[k].raises
                  /\ pdf_doc.pages[k].has_contents
                  /\ pdf_doc.pages[k].stream \in
                        {"BT (a) Tj ET", "BT [(a)] TJ ET", "BT 1 0 Td ET"})

(* C13: check_pdf_has_text leaves no temporary file behind: when it has   *)
(* returned, true or false, the temporary PDF copy it created is gone     *)
(* (unless its own removal failed and was logged).                        *)
C13_DetectorLeavesNoTemp ==
    DetectReturned => (DetectTemp \in DOMAIN fs => DetectTemp \in warnings)

====
